---- MODULE Spec2Model ----
(***************************************************************************)
(* Model of chunkenizer: the Chunkenizer class of chunkenizer/core.py      *)
(* (construction, chunk_text, process, process_text), the extraction       *)
(* dispatcher of chunkenizer/extractors/__init__.py and the batch command  *)
(* of chunkenizer/cli.py.                                                  *)
(*                                                                         *)
(* A text is a sequence of one-character strings.  The token counter is    *)
(* the tiktoken encoding selected by the model name; tiktoken is a library *)
(* outside the repository, so the model names select one of two counters:  *)
(* one token per character and one token per word.                         *)
(***************************************************************************)
EXTENDS Integers, Sequences, FiniteSets, TLC

\* ------------------------------------------------------------------ bounds
MaxTextLen == 5

MaxTokens == 3

MaxDocLen == 3

MaxFiles == 2

\* ------------------------------------------------------------------ inputs
Whitespace == {" ", "\n"}

Alphabet == {"a", "b", " "}

DocAlphabet == {"a", " ", "\n"}

RECURSIVE SeqsUpTo(_, _)
SeqsUpTo(S, n) ==
  IF n = 0 THEN {<<>>}
  ELSE LET shorter == SeqsUpTo(S, n - 1)
       IN  shorter \cup {Append(s, c) : s \in {t \in shorter : Len(t) = n - 1}, c \in S}

\* two longer texts, of five and six words
ScenarioTexts ==
  {<<"a", " ", "b", " ", "a", "b", " ", "b", "a", " ", "a", "a">>,
   <<"a", "b", " ", "b", " ", " ", "a", " ", "b", "b", " ", "b", " ", "a", " ">>}

Texts == SeqsUpTo(Alphabet, MaxTextLen) \cup ScenarioTexts

DocTexts == SeqsUpTo(DocAlphabet, MaxDocLen)

\* the texts of repeated calls on one chunker
RunTexts ==
  ScenarioTexts \cup
  {<<>>, <<" ">>, <<"a", " ", "b">>, <<"a", "b", " ", "a">>,
   <<"b", " ", " ", "a", " ">>}

\* what an extractor does with a document: it raises, or it returns a text
ExtractOutcomes == {[ok |-> FALSE, text |-> <<>>]} \cup {[ok |-> TRUE, text |-> t] : t \in DocTexts}

\* files: path.name, path.stem, path.suffix and whether the path exists
FileChoices ==
  {[name |-> "doc.pdf", stem |-> "doc", suffix |-> ".pdf", exists |-> TRUE],
   [name |-> "data.CSV", stem |-> "data", suffix |-> ".CSV", exists |-> TRUE],
   [name |-> "notes.txt", stem |-> "notes", suffix |-> ".txt", exists |-> TRUE],
   [name |-> "gone.pdf", stem |-> "gone", suffix |-> ".pdf", exists |-> FALSE]}

TokenChoices == (-1)..MaxTokens

\* the batch command's inputs: directory listings and option values
RECURSIVE Listings(_, _)
Listings(S, n) ==
  IF n = 0 THEN {<<>>}
  ELSE LET shorter == Listings(S, n - 1)
       IN  shorter \cup {Append(s, f) : s \in {t \in shorter : Len(t) = n - 1},
                                        f \in S}

DirChoices == {l \in Listings(FileChoices, MaxFiles) :
                 \A i, j \in 1..Len(l) : i # j => l[i] # l[j]}

BatchTokenChoices == {1, MaxTokens}

BatchOverlapChoices == {0, 8}

OverlapChoices == {-1, 0, 4, 8}

KnownModels == {"gpt-4", "word-test"}

ModelChoices == KnownModels \cup {"no-such-model"}

\* ------------------------------------------------------------ pure helpers
Max(a, b) == IF a > b THEN a ELSE b

IsSpace(c) == c \in Whitespace

\* str.strip() leaves nothing: the text is empty or whitespace only
IsBlank(text) == \A k \in 1..Len(text) : IsSpace(text[k])

\* str.split(): maximal runs of non-whitespace characters, in order
RECURSIVE SplitFrom(_, _, _, _)
SplitFrom(text, k, cur, acc) ==
  IF k > Len(text)
    THEN IF cur = <<>> THEN acc ELSE Append(acc, cur)
    ELSE IF IsSpace(text[k])
           THEN SplitFrom(text, k + 1, <<>>, IF cur = <<>> THEN acc ELSE Append(acc, cur))
           ELSE SplitFrom(text, k + 1, Append(cur, text[k]), acc)

Split(text) == SplitFrom(text, 1, <<>>, <<>>)

\* " ".join(ws)
RECURSIVE Join(_)
Join(ws) ==
  IF ws = <<>> THEN <<>>
  ELSE IF Len(ws) = 1 THEN ws[1]
  ELSE ws[1] \o <<" ">> \o Join(Tail(ws))

\* tiktoken.encoding_for_model(model)
EncodingFor(m) == IF m = "gpt-4" THEN "chars" ELSE "words"

\* len(encoding.encode(text))
EncodeLen(enc, text) == IF enc = "chars" THEN Len(text) ELSE Len(Split(text))

\* ws[-k:] for k >= 1
LastWords(ws, k) ==
  IF k >= Len(ws) THEN ws ELSE SubSeq(ws, Len(ws) - k + 1, Len(ws))

RECURSIVE SumSeq(_)
SumSeq(s) == IF s = <<>> THEN 0 ELSE Head(s) + SumSeq(Tail(s))

\* ------------------------------------------------------------------- state
VARIABLES
  pc,              \* position of the caller / of chunk_text
  max_tokens, overlap_tokens, model, encoding,   \* the Chunkenizer's fields
  caller, source,  \* the entry point that runs chunk_text and its source label
  extracted,       \* whether this call invoked an extractor
  text, words, widx, word_tokens,                \* chunk_text: argument and loop
  current_words, current_tokens, chunks,         \* chunk_text: window and output
  carried,         \* history: carried[j] = words carried into the j-th window
  result, error,   \* what the entry point returned or raised
  cli, files, fidx, output_dir, results_summary, written,  \* the batch command
  memo             \* history: an earlier process_text call on this chunker

vars == <<pc, max_tokens, overlap_tokens, model, encoding, caller, source,
          extracted, text, words, widx, word_tokens, current_words,
          current_tokens, chunks, carried, result, error, cli, files, fidx,
          output_dir, results_summary, written, memo>>

config == <<max_tokens, overlap_tokens, model, encoding>>

locals == <<text, words, widx, word_tokens, current_words, current_tokens,
            chunks, carried>>

batchvars == <<cli, files, fidx, output_dir, results_summary, written>>

NoResult == [source |-> "none"]

NoMemo == [set |-> FALSE]

Init ==
  /\ pc = "new"
  /\ max_tokens = 0 /\ overlap_tokens = 0 /\ model = "none" /\ encoding = "none"
  /\ caller = "none" /\ source = "none" /\ extracted = FALSE
  /\ text = <<>> /\ words = <<>> /\ widx = 0 /\ word_tokens = 0
  /\ current_words = <<>> /\ current_tokens = 0 /\ chunks = <<>>
  /\ carried = <<>>
  /\ result = NoResult /\ error = "none"
  /\ cli = "none" /\ files = <<>> /\ fidx = 0 /\ output_dir = FALSE
  /\ results_summary = <<>> /\ written = {}
  /\ memo = NoMemo

\* ---------------------------------------------------------- Chunkenizer()
\* __init__ stores its arguments unchecked; only an unknown model name fails
Construct(mt, ov, m) ==
  /\ pc = "new"
  /\ IF m \in KnownModels
       THEN /\ max_tokens' = mt /\ overlap_tokens' = ov /\ model' = m
            /\ encoding' = EncodingFor(m)
            /\ pc' = "ready" /\ error' = "none"
       ELSE /\ pc' = "raised" /\ error' = "KeyError"
            /\ UNCHANGED config
  /\ UNCHANGED <<caller, source, extracted, locals, result, batchvars, memo>>

\* -------------------------------------------------------------- chunk_text
count_tokens(t) == EncodeLen(encoding, t)

\* variant: the running estimate is stored instead of the recount
Chunk_Estimate(idx, ws, estimate) ==
  [index |-> idx, text |-> Join(ws), token_count |-> estimate,
   char_count |-> Len(Join(ws))]

Chunk(idx, ws, estimate) ==
  LET chunk_text == Join(ws)
  IN  [index |-> idx, text |-> chunk_text,
       token_count |-> count_tokens(chunk_text), char_count |-> Len(chunk_text)]

\* variant: one-based indices
CommitChunk_OneBased(cs, ws, estimate) ==
  Append(cs, [index |-> Len(cs) + 1, text |-> Join(ws),
              token_count |-> EncodeLen(encoding, Join(ws)),
              char_count |-> Len(Join(ws))])

CommitChunk(cs, ws, estimate) == Append(cs, Chunk(Len(cs), ws, estimate))

overlap_word_count == Max(1, overlap_tokens \div 4)

\* variant: the first words of the window are kept instead of the last
CarryOver_First(ws) ==
  IF overlap_word_count >= Len(ws) THEN ws ELSE SubSeq(ws, 1, overlap_word_count)

CarryOver(ws) == LastWords(ws, overlap_word_count)

InsertionCost(w) == count_tokens(Append(w, " "))

WindowCost(ws) == SumSeq([k \in 1..Len(ws) |-> InsertionCost(ws[k])])

\* variant: the budget is checked without the new word's cost
Overflows_IgnoreWord(cur_tokens, w_tokens, ws) ==
  cur_tokens > max_tokens /\ ws # <<>>

\* variant: the window is committed even when it is empty
Overflows_Unguarded(cur_tokens, w_tokens, ws) ==
  cur_tokens + w_tokens > max_tokens

Overflows(cur_tokens, w_tokens, ws) ==
  cur_tokens + w_tokens > max_tokens /\ ws # <<>>

\* variant: the last window is forgotten
FinalChunks_Forget(cs, ws, estimate) == cs

FinalChunks(cs, ws, estimate) ==
  IF ws # <<>> THEN CommitChunk(cs, ws, estimate) ELSE cs

\* variant: the window and the chunk list live on across calls
EnterChunkText_KeepWindow(t) ==
  /\ text' = t
  /\ word_tokens' = 0
  /\ UNCHANGED <<current_words, current_tokens, chunks>>
  /\ IF t = <<>> \/ IsBlank(t)
       THEN /\ words' = <<>> /\ widx' = 0 /\ carried' = carried
            /\ pc' = "returned"
       ELSE /\ words' = Split(t) /\ widx' = 1
            /\ carried' = IF carried = <<>> THEN <<0>> ELSE carried
            /\ pc' = "loop"

\* lines 118-124: the empty check, the split and the fresh window
EnterChunkText(t) ==
  /\ text' = t
  /\ word_tokens' = 0 /\ current_words' = <<>> /\ current_tokens' = 0
  /\ chunks' = <<>>
  /\ IF t = <<>> \/ IsBlank(t)
       THEN /\ words' = <<>> /\ widx' = 0 /\ carried' = <<>>
            /\ pc' = "returned"
       ELSE /\ words' = Split(t) /\ widx' = 1 /\ carried' = <<0>>
            /\ pc' = "loop"

\* variant: after a commit the overlap words are read again from the input
\* instead of being carried in the window
CheckOverflow_Rewind ==
  /\ pc = "loop" /\ widx <= Len(words)
  /\ LET wt == InsertionCost(words[widx])
     IN  IF Overflows(current_tokens, wt, current_words)
           THEN /\ chunks' = CommitChunk(chunks, current_words, current_tokens)
                /\ current_words' = <<>>
                /\ current_tokens' = 0
                /\ carried' = Append(carried, 0)
                /\ widx' = Max(1, widx - overlap_word_count)
                /\ word_tokens' = InsertionCost(words[Max(1, widx - overlap_word_count)])
           ELSE /\ word_tokens' = wt
                /\ UNCHANGED <<chunks, current_words, current_tokens, carried, widx>>
  /\ pc' = "append"
  /\ UNCHANGED <<config, caller, source, extracted, text, words, result,
                 error, batchvars, memo>>

\* lines 126-146: the next word's cost, the overflow check, commit and carry
CheckOverflow ==
  /\ pc = "loop" /\ widx <= Len(words)
  /\ LET wt == InsertionCost(words[widx])
     IN  /\ word_tokens' = wt
         /\ IF Overflows(current_tokens, wt, current_words)
              THEN /\ chunks' = CommitChunk(chunks, current_words, current_tokens)
                   /\ current_words' = CarryOver(current_words)
                   /\ current_tokens' = WindowCost(CarryOver(current_words))
                   /\ carried' = Append(carried, Len(CarryOver(current_words)))
              ELSE UNCHANGED <<chunks, current_words, current_tokens, carried>>
  /\ pc' = "append"
  /\ UNCHANGED <<config, caller, source, extracted, text, words, widx, result,
                 error, batchvars, memo>>

\* variant: a word that does not fit after the carry-over is not appended
AppendWord_SkipWhenFull ==
  /\ pc = "append"
  /\ IF current_tokens + word_tokens > max_tokens /\ current_words # <<>>
       THEN UNCHANGED <<current_words, current_tokens>>
       ELSE /\ current_words' = Append(current_words, words[widx])
            /\ current_tokens' = current_tokens + word_tokens
  /\ widx' = widx + 1
  /\ pc' = "loop"
  /\ UNCHANGED <<config, caller, source, extracted, text, words, word_tokens,
                 chunks, carried, result, error, batchvars, memo>>

\* lines 148-149
AppendWord ==
  /\ pc = "append"
  /\ current_words' = Append(current_words, words[widx])
  /\ current_tokens' = current_tokens + word_tokens
  /\ widx' = widx + 1
  /\ pc' = "loop"
  /\ UNCHANGED <<config, caller, source, extracted, text, words, word_tokens,
                 chunks, carried, result, error, batchvars, memo>>

\* lines 151-161: the last chunk and the return
FinishChunkText ==
  /\ pc = "loop" /\ widx > Len(words)
  /\ chunks' = FinalChunks(chunks, current_words, current_tokens)
  /\ pc' = "returned"
  /\ UNCHANGED <<config, caller, source, extracted, text, words, widx,
                 word_tokens, current_words, current_tokens, carried, result,
                 error, batchvars, memo>>

\* ------------------------------------------------- process and process_text
SUPPORTED_EXTENSIONS == {".pdf", ".docx", ".xlsx", ".xls", ".csv", ".pptx"}

\* str.lower() on the suffixes in use
Lower(sfx) == IF sfx = ".CSV" THEN ".csv" ELSE sfx

TotalTokens(cs) == SumSeq([k \in 1..Len(cs) |-> cs[k].token_count])

TotalChars(cs) == SumSeq([k \in 1..Len(cs) |-> cs[k].char_count])

\* variant: total_chars sums the token counts
ChunkResult_CharsFromTokens(src, cs) ==
  [source |-> src,
   total_chunks |-> Len(cs),
   total_tokens |-> TotalTokens(cs),
   total_chars |-> TotalTokens(cs),
   chunks |-> cs,
   config |-> [max_tokens |-> max_tokens, overlap_tokens |-> overlap_tokens,
               model |-> model]]

ChunkResult(src, cs) ==
  [source |-> src,
   total_chunks |-> Len(cs),
   total_tokens |-> TotalTokens(cs),
   total_chars |-> TotalChars(cs),
   chunks |-> cs,
   config |-> [max_tokens |-> max_tokens, overlap_tokens |-> overlap_tokens,
               model |-> model]]

\* where a return or an exception of process lands: the library's caller, or
\* the try block of the batch loop
ReturnTo == IF cli = "batch" THEN "batch_got" ELSE "done"

RaiseTo == IF cli = "batch" THEN "batch_except" ELSE "raised"

\* extract_text: the dispatcher's own suffix check, then the extractor
ExtractText(f, out) ==
  IF Lower(f.suffix) \notin SUPPORTED_EXTENSIONS
    THEN [ok |-> FALSE, error |-> "ValueError", ran |-> FALSE, text |-> <<>>]
    ELSE IF out.ok
           THEN [ok |-> TRUE, error |-> "none", ran |-> TRUE, text |-> out.text]
           ELSE [ok |-> FALSE, error |-> "Exception", ran |-> TRUE, text |-> <<>>]

\* variant: no format check, an extractor is run on whatever file exists
ProcessCall_NoFormatCheck(f, out) ==
  /\ caller' = "process" /\ source' = f.name
  /\ result' = NoResult
  /\ IF ~f.exists
       THEN /\ pc' = RaiseTo /\ error' = "FileNotFoundError"
            /\ extracted' = FALSE
            /\ UNCHANGED locals
       ELSE /\ extracted' = TRUE
            /\ IF out.ok
                 THEN /\ error' = "none"
                      /\ EnterChunkText(out.text)
                 ELSE /\ pc' = RaiseTo /\ error' = "Exception"
                      /\ UNCHANGED locals
  /\ UNCHANGED config

\* process, lines 175-191: the checks, the extraction and the entry to chunk_text
ProcessCall(f, out) ==
  /\ caller' = "process" /\ source' = f.name
  /\ result' = NoResult
  /\ IF ~f.exists
       THEN /\ pc' = RaiseTo /\ error' = "FileNotFoundError"
            /\ extracted' = FALSE
            /\ UNCHANGED locals
       ELSE IF Lower(f.suffix) \notin SUPPORTED_EXTENSIONS
         THEN /\ pc' = RaiseTo /\ error' = "ValueError"
              /\ extracted' = FALSE
              /\ UNCHANGED locals
         ELSE LET ex == ExtractText(f, out)
              IN  /\ extracted' = ex.ran
                  /\ IF ex.ok
                       THEN /\ error' = "none"
                            /\ EnterChunkText(ex.text)
                       ELSE /\ pc' = RaiseTo /\ error' = ex.error
                            /\ UNCHANGED locals
  /\ UNCHANGED config

ProcessFile(f, out) ==
  /\ pc = "ready"
  /\ ProcessCall(f, out)
  /\ UNCHANGED <<batchvars, memo>>

\* process_text, line 217
ProcessText(t) ==
  /\ pc = "ready"
  /\ caller' = "process_text" /\ source' = "text"
  /\ result' = NoResult /\ error' = "none" /\ extracted' = FALSE
  /\ EnterChunkText(t)
  /\ UNCHANGED <<config, batchvars, memo>>

\* lines 193-204 and 219-230
ReturnResult ==
  /\ pc = "returned"
  /\ result' = ChunkResult(source, chunks)
  /\ pc' = ReturnTo
  /\ UNCHANGED <<config, caller, source, extracted, locals, error, batchvars, memo>>

\* the caller is done with what the call returned or raised; the call's
\* locals are gone and the chunker is ready for the next call
Discard ==
  /\ pc \in {"done", "raised"} /\ model # "none"
  /\ pc' = "ready"
  /\ caller' = "none" /\ source' = "none" /\ extracted' = FALSE
  /\ text' = <<>> /\ words' = <<>> /\ widx' = 0 /\ word_tokens' = 0
  /\ current_words' = <<>> /\ current_tokens' = 0 /\ chunks' = <<>>
  /\ carried' = <<>>
  /\ result' = NoResult /\ error' = "none"
  /\ UNCHANGED <<config, batchvars, memo>>

\* ------------------------------------------------------------------- specs
Next ==
  \/ \E mt \in TokenChoices, ov \in OverlapChoices, m \in ModelChoices :
       Construct(mt, ov, m)
  \/ \E t \in Texts : ProcessText(t)
  \/ \E f \in FileChoices, out \in ExtractOutcomes : ProcessFile(f, out)
  \/ CheckOverflow
  \/ AppendWord
  \/ FinishChunkText
  \/ ReturnResult
  \/ Discard

Spec == Init /\ [][Next]_vars

\* ------------------------------------------- repeated calls on one chunker
\* process_text is called again on the same chunker while the caller still
\* holds the previous result; the previous call's values are whatever they
\* were left at.  The caller may keep the previous input and result aside.
RunAgain(t, remember) ==
  /\ pc = "done" /\ caller = "process_text"
  /\ memo' = IF remember
               THEN [set |-> TRUE, text |-> text, result |-> result,
                     between |-> FALSE]
               ELSE IF memo.set THEN [memo EXCEPT !.between = TRUE] ELSE memo
  /\ caller' = "process_text" /\ source' = "text"
  /\ result' = NoResult /\ error' = "none" /\ extracted' = FALSE
  /\ EnterChunkText(t)
  /\ UNCHANGED <<config, batchvars>>

NextRuns ==
  \/ \E mt \in TokenChoices, ov \in OverlapChoices, m \in ModelChoices :
       Construct(mt, ov, m)
  \/ \E t \in RunTexts : ProcessText(t)
  \/ \E t \in RunTexts, remember \in BOOLEAN : RunAgain(t, remember)
  \/ CheckOverflow
  \/ AppendWord
  \/ FinishChunkText
  \/ ReturnResult

SpecRuns == Init /\ [][NextRuns]_vars

\* -------------------------------------------------------- cli.py: batch
SelectSupported(l) ==
  SelectSeq(l, LAMBDA f : Lower(f.suffix) \in SUPPORTED_EXTENSIONS)

SuccessEntry(f, r) ==
  [file |-> f.name, chunks |-> r.total_chunks, tokens |-> r.total_tokens,
   status |-> "success"]

ErrorEntry(f) == [file |-> f.name, chunks |-> 0, tokens |-> 0, status |-> "error"]

\* the try block after process returned, lines 166-177, and the except
\* clause when writing the output file raises
RecordSuccess(rs, f, r, od, write_ok) ==
  IF od /\ ~write_ok
    THEN Append(Append(rs, SuccessEntry(f, r)), ErrorEntry(f))
    ELSE Append(rs, SuccessEntry(f, r))

\* lines 132-158
BatchStart(isdir, listing, mt, ov, od) ==
  /\ pc = "new"
  /\ IF ~isdir
       THEN /\ pc' = "exit" /\ error' = "Exit1"
            /\ UNCHANGED <<config, batchvars, memo>>
       ELSE /\ max_tokens' = mt /\ overlap_tokens' = ov /\ model' = "gpt-4"
            /\ encoding' = EncodingFor("gpt-4")
            /\ IF SelectSupported(listing) = <<>>
                 THEN /\ pc' = "exit" /\ error' = "Exit0"
                      /\ UNCHANGED <<batchvars, memo>>
                 ELSE /\ pc' = "batch_loop" /\ error' = "none"
                      /\ cli' = "batch"
                      /\ files' = SelectSupported(listing) /\ fidx' = 1
                      /\ output_dir' = od
                      /\ results_summary' = <<>>
                      /\ written' = {}
  /\ UNCHANGED <<caller, source, extracted, locals, result, memo>>

\* line 165: the loop calls process on the next file
BatchProcess(out) ==
  /\ pc = "batch_loop" /\ fidx <= Len(files)
  /\ ProcessCall(files[fidx], out)
  /\ UNCHANGED <<batchvars, memo>>

\* lines 166-177 and 187
BatchRecord(write_ok) ==
  /\ pc = "batch_got"
  /\ results_summary' =
       RecordSuccess(results_summary, files[fidx], result, output_dir, write_ok)
  /\ written' = IF output_dir /\ write_ok THEN written \cup {files[fidx].stem}
                ELSE written
  /\ fidx' = fidx + 1
  /\ pc' = "batch_loop"
  /\ UNCHANGED <<config, caller, source, extracted, locals, result, error, cli,
                 files, output_dir, memo>>

\* lines 179-187
BatchExcept ==
  /\ pc = "batch_except"
  /\ results_summary' = Append(results_summary, ErrorEntry(files[fidx]))
  /\ fidx' = fidx + 1
  /\ pc' = "batch_loop"
  /\ UNCHANGED <<config, caller, source, extracted, locals, result, error, cli,
                 files, output_dir, written, memo>>

\* lines 189-205: the loop is over, the table is printed
BatchFinish ==
  /\ pc = "batch_loop" /\ fidx > Len(files)
  /\ pc' = "batch_done"
  /\ UNCHANGED <<config, caller, source, extracted, locals, result, error,
                 batchvars, memo>>

NextBatch ==
  \/ \E isdir \in BOOLEAN, listing \in DirChoices, mt \in BatchTokenChoices,
        ov \in BatchOverlapChoices, od \in BOOLEAN :
       BatchStart(isdir, listing, mt, ov, od)
  \/ \E out \in ExtractOutcomes : BatchProcess(out)
  \/ CheckOverflow
  \/ AppendWord
  \/ FinishChunkText
  \/ ReturnResult
  \/ \E write_ok \in BOOLEAN : BatchRecord(write_ok)
  \/ BatchExcept
  \/ BatchFinish

SpecBatch == Init /\ [][NextBatch]_vars

\* ------------------------------------------------------------- properties
\* chunk_text has returned and its chunks are in hand
Returned == pc \in {"returned", "done", "batch_got"}

ChunkWords(j) == Split(chunks[j].text)

\* the words of chunk j after its carried-over leading words
NewWords(j) == SubSeq(ChunkWords(j), carried[j] + 1, Len(ChunkWords(j)))

RECURSIVE Flatten(_)
Flatten(ss) == IF ss = <<>> THEN <<>> ELSE Head(ss) \o Flatten(Tail(ss))

\* the position in the input of the last word of chunk j
RECURSIVE ChunkEnd(_)
ChunkEnd(j) == IF j = 0 THEN 0 ELSE ChunkEnd(j - 1) + Len(NewWords(j))

\* the chunk that first emits the word at input position k
EmittingChunk(k) ==
  CHOOSE j \in 1..Len(chunks) : ChunkEnd(j - 1) < k /\ k <= ChunkEnd(j)

Oversized(w) == EncodeLen(encoding, Append(w, " ")) > max_tokens

\* the configuration __init__ is documented to accept
ValidConfig == max_tokens > 0 /\ overlap_tokens >= 0

\* C1: once chunk_text has returned, the carried-over leading words of each
\* chunk are the last words of the chunk before it, and the words of chunk 0
\* followed by every later chunk's words after its carried-over ones are
\* exactly the whitespace-split words of the input.
C1_NoSplitCoverage ==
  Returned =>
    /\ Len(carried) >= Len(chunks)
    /\ \A j \in 1..Len(chunks) :
         /\ carried[j] <= Len(ChunkWords(j))
         /\ j = 1 => carried[j] = 0
         /\ j > 1 => SubSeq(ChunkWords(j), 1, carried[j])
                       = LastWords(ChunkWords(j - 1), carried[j])
    /\ Flatten([j \in 1..Len(chunks) |-> NewWords(j)]) = Split(text)

C1_Witness ==
  /\ pc = "returned" /\ Len(chunks) >= 3 /\ Len(Split(text)) >= 5
  /\ \E j \in 1..Len(chunks) : carried[j] = 2

\* C2: with overlap_tokens = 0 the chunks partition the word sequence: the
\* words of all chunks, in order, are the words of the input, none twice
\* (stated for max_tokens > 0, so that a violation rests on no invalid
\* configuration).
C2_OverlapZeroPartition ==
  (Returned /\ overlap_tokens = 0 /\ ValidConfig) =>
    Flatten([j \in 1..Len(chunks) |-> ChunkWords(j)]) = Split(text)

\* C3: when no word's insertion cost exceeds max_tokens and overlap_tokens <
\* max_tokens, the insertion costs of the words of every emitted chunk sum to
\* at most max_tokens (stated for overlap_tokens >= 0, so that a violation
\* rests on no invalid configuration).
C3_TokenBudget ==
  (/\ pc \in {"loop", "append", "returned", "done"}
   /\ ValidConfig
   /\ overlap_tokens < max_tokens
   /\ \A k \in 1..Len(words) : ~Oversized(words[k])) =>
    \A j \in 1..Len(chunks) : WindowCost(ChunkWords(j)) <= max_tokens

C5_InvalidConfigRejected ==
  pc \in {"ready", "loop", "append", "returned", "done"} =>
    (max_tokens > 0 /\ overlap_tokens >= 0)

\* C6: every emitted chunk, committed on overflow or last, carries the token
\* count of its joined text under the chunker's encoding and that text's
\* length.
C6_ExactRecount ==
  \A j \in 1..Len(chunks) :
    /\ chunks[j].token_count = EncodeLen(EncodingFor(model), chunks[j].text)
    /\ chunks[j].char_count = Len(chunks[j].text)

C6_Witness ==
  /\ pc = "returned" /\ Len(chunks) >= 2
  /\ chunks[Len(chunks)].token_count # current_tokens
  /\ chunks[1].token_count # WindowCost(ChunkWords(1))

\* C7: a returned ChunkResult has total_chunks = len(chunks), total_tokens
\* and total_chars the sums over its chunks, and the chunker's configuration.
C7_AggregateConsistency ==
  result # NoResult =>
    /\ result.chunks = chunks
    /\ result.total_chunks = Len(result.chunks)
    /\ result.total_tokens =
         SumSeq([k \in 1..Len(result.chunks) |-> result.chunks[k].token_count])
    /\ result.total_chars =
         SumSeq([k \in 1..Len(result.chunks) |-> result.chunks[k].char_count])
    /\ result.config = [max_tokens |-> max_tokens,
                        overlap_tokens |-> overlap_tokens, model |-> model]

C7_Witness ==
  /\ pc = "done" /\ caller = "process" /\ result # NoResult
  /\ result.total_chunks >= 2
  /\ result.total_tokens # result.total_chars

\* C8: at every point of a run the chunk at list position i has index i,
\* counted from zero.
C8_ChunkIndices == \A j \in 1..Len(chunks) : chunks[j].index = j - 1

C8_Witness == pc = "append" /\ Len(chunks) >= 3 /\ widx < Len(words)

\* C9: an empty or whitespace-only text gives no chunks and no error, and
\* process_text then reports total_chunks = 0; no emitted chunk is without a
\* word.
C9_EmptyInputNonEmptyChunks ==
  /\ (Returned /\ IsBlank(text)) => (chunks = <<>> /\ error = "none")
  /\ (pc = "done" /\ IsBlank(text)) => result.total_chunks = 0
  /\ \A j \in 1..Len(chunks) : chunks[j].text # <<>> /\ ChunkWords(j) # <<>>

C9_Witness ==
  /\ pc = "done" /\ caller = "process_text" /\ text # <<>> /\ IsBlank(text)
  /\ result.total_chunks = 0

\* C11: a process_text call whose text is the text of an earlier call on the
\* same chunker returns the result that call returned, whatever calls ran in
\* between; and no step of a call changes max_tokens, overlap_tokens, model
\* or the encoding.
C11_Determinism ==
  /\ []((pc = "done" /\ memo.set /\ memo.text = text) => result = memo.result)
  /\ [][pc # "new" => UNCHANGED config]_vars

C11_Witness ==
  /\ pc = "done" /\ memo.set /\ memo.between /\ memo.text = text
  /\ result.total_chunks >= 3

Min(a, b) == IF a < b THEN a ELSE b

\* the number of words the claim says are retained from a window of n words
Retained(n) == Min(Max(1, overlap_tokens \div 4), n)

\* the last k words of ws, in order
Tail_k(ws, k) == [i \in 1..k |-> ws[Len(ws) - k + i]]

\* a step of the loop that commits a chunk
CommitStep == pc = "loop" /\ pc' = "append" /\ Len(chunks') = Len(chunks) + 1

Remaining ==
  2 * (Len(Split(text)) + 1 - widx) + (IF pc = "loop" THEN 1 ELSE 0)

InLoop == pc \in {"loop", "append"}

\* C13: under every configuration chunk_text can always take its next step,
\* every step brings it one step nearer to its return, a word step reads
\* exactly the next input word, the read position never moves otherwise, the
\* return comes when exactly the W words were read, and finishing adds at
\* most one chunk.
C13_Termination ==
  /\ [](InLoop =>
          /\ widx >= 1 /\ widx <= Len(Split(text)) + 1
          /\ Remaining >= 1
          /\ ENABLED (CheckOverflow \/ AppendWord \/ FinishChunkText))
  /\ [](pc = "returned" =>
          (IF widx = 0 THEN 0 ELSE widx - 1) = Len(Split(text)))
  /\ [][InLoop => Remaining' = Remaining - 1]_vars
  /\ [][pc = "loop" => widx' = widx]_vars
  /\ [][pc = "append" =>
          /\ widx' = widx + 1
          /\ current_words' = Append(current_words, Split(text)[widx])]_vars
  /\ [][(pc = "loop" /\ pc' = "returned") =>
          Len(chunks') <= Len(chunks) + 1]_vars

C13_Witness ==
  /\ pc = "returned" /\ max_tokens <= 0 /\ overlap_tokens >= 8
  /\ Len(Split(text)) = 6 /\ widx = 7 /\ Len(chunks) = 6

\* C14: at every point of a run each emitted chunk ends with the input word
\* at a position strictly after the position the chunk before it ended with,
\* so there are never more chunks than input words.
C14_ProgressPerChunk ==
  /\ \A j \in 1..Len(chunks) :
       /\ ChunkEnd(j) > ChunkEnd(j - 1)
       /\ ChunkEnd(j) <= Len(Split(text))
       /\ ChunkWords(j)[Len(ChunkWords(j))] = Split(text)[ChunkEnd(j)]
  /\ Len(chunks) <= Len(Split(text))

C14_Witness ==
  /\ pc = "returned" /\ ValidConfig
  /\ Len(chunks) = Len(Split(text)) /\ Len(chunks) >= 5
  /\ \E j \in 2..Len(chunks) :
       /\ carried[j] = 2
       /\ WindowCost(SubSeq(ChunkWords(j), 1, carried[j])) > max_tokens

\* the file the running process call was given
CurrentFile == CHOOSE f \in FileChoices : f.name = source

\* C15: a process call on an existing file whose lower-cased suffix is none
\* of .pdf, .docx, .xlsx, .xls, .csv, .pptx is, in every state it is ever in,
\* a raised ValueError with no extractor invoked, chunk_text not entered and
\* no ChunkResult.
C15_UnsupportedFormatFirst ==
  (/\ caller = "process"
   /\ CurrentFile.exists
   /\ Lower(CurrentFile.suffix) \notin
        {".pdf", ".docx", ".xlsx", ".xls", ".csv", ".pptx"}) =>
    /\ pc = "raised" /\ error = "ValueError"
    /\ ~extracted
    /\ words = <<>> /\ widx = 0 /\ chunks = <<>>
    /\ result = NoResult

C15_Witness ==
  /\ pc = "raised" /\ caller = "process" /\ source = "notes.txt"
  /\ error = "ValueError" /\ ~extracted

\* C10: when the batch loop is over, the summary has exactly one entry per
\* file, in the files' order, a success entry or an error entry with no
\* chunks and no tokens.
C10_BatchIsolation ==
  pc = "batch_done" =>
    /\ Len(results_summary) = Len(files)
    /\ \A i \in 1..Len(files) :
         /\ results_summary[i].file = files[i].name
         /\ \/ results_summary[i].status = "success"
            \/ /\ results_summary[i].status = "error"
               /\ results_summary[i].chunks = 0
               /\ results_summary[i].tokens = 0

====
